---------------------------- MODULE Spec2Model ----------------------------
(***************************************************************************)
(* A model of swift-gcs-edge:                                              *)
(*   - hub_rpi/hub_manager_api.py: the hub's enrollment handler            *)
(*     (add_asset) and the credential / ACL store functions it calls, its  *)
(*     config handlers (get_config, set_config, get_drone_config) and      *)
(*     restart_service;                                                    *)
(*   - drone_rpi/mavlink_mqtt_bridge_generic.py: configuration loading     *)
(*     (load_config) and the bridge process (main, telemetry_publisher,    *)
(*     on_connect, on_message).                                            *)
(*                                                                         *)
(* Specifications:                                                         *)
(*   Spec        the hub's enrollment handler: requests to /api/asset/add  *)
(*   SpecStore   the store functions create_mosquitto_user and             *)
(*               update_acl_file applied directly to their arguments, and  *)
(*               the device config the hub serves afterwards               *)
(*   SpecServe   add_asset run by the server's request threads, one call   *)
(*               at a time, two requests side by side                      *)
(*   SpecConfig  the hub's config handlers: get_config, set_config,        *)
(*               get_drone_config                                          *)
(*   SpecService the hub's restart_service handler                         *)
(*   SpecResolve the bridge's load_config applied to every local file,     *)
(*               environment and hub answer of the sample sets             *)
(*   SpecBridge  the bridge process: main thread, MQTT network thread,     *)
(*               and the broker, vehicle and operator around them          *)
(*   FairSpecBridge  SpecBridge with both threads scheduled fairly         *)
(***************************************************************************)
EXTENDS Integers, Sequences, FiniteSets, TLC

VARIABLES
    pwFile,      \* /etc/mosquitto/pwfile: username -> password (hashed by the tool)
    aclFile,     \* /etc/mosquitto/aclfile: [exists, lines]
    restartLog,  \* the restart requests issued to systemctl, in order
    resp,        \* the HTTP response of the last request handled by the hub
    tornWrites,  \* how many writes to the ACL file have failed part-way so far
    lastOp,      \* the last request / call, what its environment did, its steps' results
    cfgFile,     \* /etc/mosquitto/hub_config.json on the hub: [state, json]
    defaultConfig,  \* the hub process's DEFAULT_CONFIG dict, as it is in memory now
    handlers,    \* the hub server's request threads inside add_asset: [pc, data] each
    localFile,   \* /home/pi/drone_config.json on the drone: [state, json]
    environ,     \* the bridge's environment variables
    remote,      \* what GET /api/drones/<id>/config on the hub does: [net, status, body]
    loaded,      \* what load_config() returned or raised, once it has run
    pcMain,      \* where the bridge's main thread is
    stopCause,   \* why main left its normal path: none, or the error / the interrupt
    link,        \* the MAVLink handle mav: none, open, ready (heartbeat seen), closed
    linkIn,      \* the vehicle's messages waiting on the link, oldest first
    cur,         \* the message recv_match returned to the poll loop
    erred,       \* the poll loop has caught an error in some iteration
    netThread,   \* the MQTT network loop thread: off, running, stopped
    pcNet,       \* where the network thread is: idle, on_message, sending
    payload,     \* the command payload the network thread is handling or handled last
    subscribed,  \* the topics the bridge has subscribed to
    delivered,   \* how many command messages the broker has delivered
    directives,  \* the command_long_send calls that reached the link, in order
    published    \* the (topic, kind) pairs published so far

hubVars == <<pwFile, aclFile, restartLog, resp, tornWrites, lastOp>>
cfgVars == <<cfgFile, defaultConfig>>
serveVars == <<handlers>>

resolveVars == <<localFile, environ, remote, loaded>>

mainVars == <<pcMain, stopCause, link, cur, erred>>
netVars == <<netThread, pcNet, payload, subscribed, delivered, directives>>
bridgeVars == <<mainVars, netVars, linkIn, published>>

\* what a step of the hub, of config loading, and of the bridge leaves alone
notHubVars == <<cfgVars, serveVars, resolveVars, bridgeVars>>
notResolveVars == <<hubVars, cfgVars, serveVars, bridgeVars>>
notBridgeVars == <<hubVars, cfgVars, serveVars, localFile, environ, remote>>
\* what a config handler of the hub leaves alone
notCfgVars == <<pwFile, aclFile, tornWrites, serveVars, resolveVars, bridgeVars>>
\* what a request thread of the hub's server leaves alone
notServeVars == <<cfgVars, resolveVars, bridgeVars>>

vars == <<hubVars, cfgVars, serveVars, resolveVars, bridgeVars>>

-----------------------------------------------------------------------------
(* Bounds and input sets *)

\* the model stops appending once the ACL file holds this many rule blocks
\* (of six lines each), whole or torn
MaxAclBlocks == 2
\* how many writes to the ACL file the model lets fail part-way
MaxTornWrites == 1
\* the model stops taking restart requests once this many restarts have been
\* issued to systemctl
MaxRestarts == 2
\* how many vehicle messages may wait on the link
MaxLinkIn == 1
\* how many command messages the broker delivers
MaxCommands == 1

\* the request threads of the hub's server (app.run serves each request in
\* a thread of its own)
Threads == {1, 2}

AssetIds  == {"D1", "D2"}
Usernames == {"DRN_D1", "DRN_D2"}
Passwords == {"pw1", "pw2"}

\* what running the mosquitto_passwd command would do, were it run
ToolOutcomes == {"ok", "nonzero", "spawn_error"}
\* what the filesystem does to the ACL file during update_acl_file
AclIoOutcomes == {"ok", "read_error", "open_error", "write_error"}
\* what  sudo systemctl restart <service>  does within its 10 s timeout
RestartOutcomes == {"ok", "nonzero", "timeout", "spawn_error"}

Envs == [tool : ToolOutcomes, aclIo : AclIoOutcomes, restart : RestartOutcomes]

NoBody == [t |-> "none"]
Dict(f) == [t |-> "dict", v |-> f]

\* every JSON object over the three enrollment fields, any of them missing
AddAssetDicts ==
    { Dict(f) : f \in UNION { [ks -> AssetIds \cup Usernames \cup Passwords] :
                                ks \in SUBSET {"asset_id", "username", "password"} } }

WellTyped(d) ==
    /\ ("asset_id" \in DOMAIN d.v => d.v["asset_id"] \in AssetIds)
    /\ ("username" \in DOMAIN d.v => d.v["username"] \in Usernames)
    /\ ("password" \in DOMAIN d.v => d.v["password"] \in Passwords)

AddAssetBodies == {NoBody} \cup { d \in AddAssetDicts : WellTyped(d) }

-----------------------------------------------------------------------------
(* subprocess.run(cmd, shell=True, capture_output=True, text=True, sudo=False) *)

\* the keyword arguments subprocess.run and Popen.__init__ accept
PopenKeywords ==
    {"input", "capture_output", "timeout", "check",
     "bufsize", "executable", "stdin", "stdout", "stderr", "preexec_fn",
     "close_fds", "shell", "cwd", "env", "universal_newlines", "startupinfo",
     "creationflags", "restore_signals", "start_new_session", "pass_fds",
     "user", "group", "extra_groups", "encoding", "errors", "text", "umask",
     "pipesize", "process_group"}

\* keyword arguments of the call at hub_manager_api.py:69
CreateUserRunKeywords == {"shell", "capture_output", "text", "sudo"}

\* Popen.__init__ raises TypeError for a keyword it does not know, before
\* any process is spawned
RunRaisesTypeError(kws) == kws \ PopenKeywords # {}

\* create_mosquitto_user(username, password): [ok, pw] the return value and
\* the password file afterwards
create_mosquitto_user(pw, username, password, tool) ==
    IF RunRaisesTypeError(CreateUserRunKeywords)
    THEN [ok |-> FALSE, pw |-> pw]                 \* except Exception: return False
    ELSE IF tool = "spawn_error"
    THEN [ok |-> FALSE, pw |-> pw]                 \* except Exception: return False
    ELSE IF tool = "nonzero"
    THEN [ok |-> FALSE, pw |-> pw]                 \* returncode != 0: return False
    ELSE [ok |-> TRUE,
          pw |-> [u \in DOMAIN pw \cup {username} |->
                    IF u = username THEN password ELSE pw[u]]]

-----------------------------------------------------------------------------
(* The ACL file *)

\* the ACL template with another prefix on the telemetry topic
AclTelemetryTopicPlural(asset_id) == "drones/" \o asset_id \o "/telemetry"

\* the topic strings of the ACL template, hub_manager_api.py:92-94
AclStatusTopic(asset_id)    == "drone/" \o asset_id \o "/status"
AclTelemetryTopic(asset_id) == "drone/" \o asset_id \o "/telemetry"
AclCommandTopic(asset_id)   == "drone/" \o asset_id \o "/command"

\* new_acl_rules, line by line, each line as its blank-separated words
NewAclRules(username, asset_id) ==
    << <<>>,
       <<"#", "ACL", "for", "drone", "user", username>>,
       <<"user", username>>,
       <<"topic", "write", AclStatusTopic(asset_id)>>,
       <<"topic", "write", AclTelemetryTopic(asset_id)>>,
       <<"topic", "read", AclCommandTopic(asset_id)>> >>

\* what a failed write may leave behind: any prefix of the text
Prefixes(s) == { SubSeq(s, 1, n) : n \in 0..Len(s) }

\* update_acl_file(username, asset_id): the set of possible
\* [ok, acl] (return value, ACL file afterwards) under I/O outcome io
update_acl_file(acl, username, asset_id, io) ==
    IF io = "read_error" /\ acl.exists
    THEN { [ok |-> FALSE, acl |-> acl] }
    ELSE IF io = "open_error"
    THEN { [ok |-> FALSE, acl |-> acl] }
    ELSE IF io = "write_error"
    THEN { [ok |-> FALSE,
            acl |-> [exists |-> TRUE, lines |-> acl.lines \o p]] :
             p \in Prefixes(NewAclRules(username, asset_id)) \ {NewAclRules(username, asset_id)} }
    ELSE { [ok |-> TRUE,
            acl |-> [exists |-> TRUE,
                     lines  |-> acl.lines \o NewAclRules(username, asset_id)]] }

-----------------------------------------------------------------------------
(* POST /api/asset/add *)

MissingFields(d) == {"asset_id", "username", "password"} \ DOMAIN d.v

\* the first required field, in the order of required_fields, that is missing
FirstMissing(d) ==
    IF "asset_id" \notin DOMAIN d.v THEN "asset_id"
    ELSE IF "username" \notin DOMAIN d.v THEN "username"
    ELSE "password"

Error(code, text) == [code |-> code, body |-> [error |-> text]]

RestartRequest(service, outcome) == [service |-> service, outcome |-> outcome]

\* subprocess.run([...]) spawns the command unless the spawn itself fails
Requested(log, service, outcome) ==
    IF outcome = "spawn_error" THEN log
    ELSE Append(log, RestartRequest(service, outcome))

AddAssetSuccess(asset_id, username) ==
    [code |-> 200,
     body |-> [status   |-> "success",
               message  |-> "Asset " \o asset_id \o " created. Mosquitto restart needed.",
               asset_id |-> asset_id,
               username |-> username]]

StepLabel(ok) == IF ok THEN "ok" ELSE "failed"

\* add_asset with the check of create_mosquitto_user's result left out: the
\* handler goes on to the ACL file whatever the credential step returned
AddAssetIgnoringCredentialFailure(data, e) ==
    IF data.t # "dict"
    THEN { [pw |-> pwFile, acl |-> aclFile, log |-> restartLog,
            resp |-> [code |-> 500, body |-> [error |-> "argument of type 'NoneType' is not iterable"]],
            cred |-> "skipped", aclStep |-> "skipped", restart |-> "skipped"] }
    ELSE IF {"asset_id", "username", "password"} \ DOMAIN data.v # {}
    THEN { [pw |-> pwFile, acl |-> aclFile, log |-> restartLog,
            resp |-> [code |-> 400, body |-> [error |-> "Missing field"]],
            cred |-> "skipped", aclStep |-> "skipped", restart |-> "skipped"] }
    ELSE
      LET c == create_mosquitto_user(pwFile, data.v["username"], data.v["password"], e.tool)
      IN  { IF ~a.ok
            THEN [pw |-> c.pw, acl |-> a.acl, log |-> restartLog,
                  resp |-> [code |-> 500, body |-> [error |-> "Failed to update ACL"]],
                  cred |-> StepLabel(c.ok), aclStep |-> "failed", restart |-> "skipped"]
            ELSE [pw |-> c.pw, acl |-> a.acl,
                  log |-> Requested(restartLog, "mosquitto", e.restart),
                  resp |-> AddAssetSuccess(data.v["asset_id"], data.v["username"]),
                  cred |-> StepLabel(c.ok), aclStep |-> "ok", restart |-> e.restart]
            : a \in update_acl_file(aclFile, data.v["username"], data.v["asset_id"], e.aclIo) }

\* add_asset: the states it may leave, for request body data in environment e.
\* cred / aclStep / restart record what each step did (skipped: not reached).
AddAssetResults(data, e) ==
    IF data.t # "dict"
    THEN \* "field not in data" raises TypeError: the outer except answers 500
         { [pw |-> pwFile, acl |-> aclFile, log |-> restartLog,
            resp |-> Error(500, "argument of type 'NoneType' is not iterable"),
            cred |-> "skipped", aclStep |-> "skipped", restart |-> "skipped"] }
    ELSE IF MissingFields(data) # {}
    THEN { [pw |-> pwFile, acl |-> aclFile, log |-> restartLog,
            resp |-> Error(400, "Missing field: " \o FirstMissing(data)),
            cred |-> "skipped", aclStep |-> "skipped", restart |-> "skipped"] }
    ELSE
      LET asset_id == data.v["asset_id"]
          username == data.v["username"]
          password == data.v["password"]
          c == create_mosquitto_user(pwFile, username, password, e.tool)
      IN  IF ~c.ok
          THEN { [pw |-> c.pw, acl |-> aclFile, log |-> restartLog,
                  resp |-> Error(500, "Failed to create Mosquitto user"),
                  cred |-> StepLabel(c.ok), aclStep |-> "skipped", restart |-> "skipped"] }
          ELSE { IF ~a.ok
                 THEN [pw |-> c.pw, acl |-> a.acl, log |-> restartLog,
                       resp |-> Error(500, "Failed to update ACL"),
                       cred |-> StepLabel(c.ok), aclStep |-> StepLabel(a.ok),
                       restart |-> "skipped"]
                 ELSE [pw |-> c.pw, acl |-> a.acl,
                       log |-> Requested(restartLog, "mosquitto", e.restart),
                       resp |-> AddAssetSuccess(asset_id, username),
                       cred |-> StepLabel(c.ok), aclStep |-> StepLabel(a.ok),
                       restart |-> e.restart]
                 : a \in update_acl_file(aclFile, username, asset_id, e.aclIo) }

\* the file still has room, within the model's bound, for one more block
HasRoom(acl) == Len(acl.lines) + 6 <= 6 * MaxAclBlocks

\* the write error is within the model's bound on torn writes
MayTear(io) == io = "write_error" => tornWrites < MaxTornWrites

AddAsset(data, e) ==
    /\ HasRoom(aclFile)
    /\ MayTear(e.aclIo)
    /\ \E r \in AddAssetResults(data, e) :
         /\ tornWrites' = IF r.aclStep = "failed" /\ e.aclIo = "write_error"
                          THEN tornWrites + 1 ELSE tornWrites
         /\ pwFile' = r.pw
         /\ aclFile' = r.acl
         /\ restartLog' = r.log
         /\ resp' = r.resp
         /\ lastOp' = [op |-> "add_asset", data |-> data,
                       tool |-> e.tool, aclIo |-> e.aclIo,
                       cred |-> r.cred, aclStep |-> r.aclStep, restart |-> r.restart]
    /\ UNCHANGED notHubVars

-----------------------------------------------------------------------------
(* add_asset run by the server's request threads, statement by statement *)

\* thread t takes a request to /api/asset/add: lines 155-164. A body that is
\* no object or lacks a field is answered at once; otherwise the thread is
\* about to call create_mosquitto_user.
AddAssetBegin(t, data) ==
    /\ handlers[t].pc = "idle"
    /\ IF data.t # "dict"
       THEN /\ resp' = Error(500, "argument of type 'NoneType' is not iterable")
            /\ UNCHANGED handlers
       ELSE IF MissingFields(data) # {}
       THEN /\ resp' = Error(400, "Missing field: " \o FirstMissing(data))
            /\ UNCHANGED handlers
       ELSE /\ handlers' = [handlers EXCEPT ![t] =
                               [pc |-> "create_mosquitto_user", data |-> data]]
            /\ UNCHANGED resp
    /\ lastOp' = [op |-> "add_asset", thread |-> t, step |-> "begin"]
    /\ UNCHANGED <<pwFile, aclFile, restartLog, tornWrites>>
    /\ UNCHANGED notServeVars

Idle == [pc |-> "idle", data |-> NoBody]

\* thread t runs the next call of add_asset: create_mosquitto_user (line 167),
\* update_acl_file (line 171), or the restart and the answer (lines 175-187)
AddAssetStep(t, e) ==
    LET h == handlers[t]
        asset_id == h.data.v["asset_id"]
        username == h.data.v["username"]
        password == h.data.v["password"]
    IN  /\ h.pc # "idle"
        /\ lastOp' = [op |-> "add_asset", thread |-> t, step |-> h.pc]
        /\ CASE h.pc = "create_mosquitto_user" ->
                 LET c == create_mosquitto_user(pwFile, username, password, e.tool)
                 IN  /\ pwFile' = c.pw
                     /\ IF c.ok
                        THEN /\ handlers' = [handlers EXCEPT ![t].pc = "update_acl_file"]
                             /\ UNCHANGED resp
                        ELSE /\ handlers' = [handlers EXCEPT ![t] = Idle]
                             /\ resp' = Error(500, "Failed to create Mosquitto user")
                     /\ UNCHANGED <<aclFile, restartLog, tornWrites>>
             [] h.pc = "update_acl_file" ->
                 /\ HasRoom(aclFile)
                 /\ MayTear(e.aclIo)
                 /\ tornWrites' = IF e.aclIo = "write_error"
                                  THEN tornWrites + 1 ELSE tornWrites
                 /\ \E a \in update_acl_file(aclFile, username, asset_id, e.aclIo) :
                      /\ aclFile' = a.acl
                      /\ IF a.ok
                         THEN /\ handlers' = [handlers EXCEPT ![t].pc = "restart"]
                              /\ UNCHANGED resp
                         ELSE /\ handlers' = [handlers EXCEPT ![t] = Idle]
                              /\ resp' = Error(500, "Failed to update ACL")
                 /\ UNCHANGED <<pwFile, restartLog>>
             [] h.pc = "restart" ->
                 /\ restartLog' = Requested(restartLog, "mosquitto", e.restart)
                 /\ resp' = AddAssetSuccess(asset_id, username)
                 /\ handlers' = [handlers EXCEPT ![t] = Idle]
                 /\ UNCHANGED <<pwFile, aclFile, tornWrites>>
        /\ UNCHANGED notServeVars

-----------------------------------------------------------------------------
(* The store functions called directly *)

CallCreateUser(username, password, tool) ==
    LET c == create_mosquitto_user(pwFile, username, password, tool)
    IN  /\ pwFile' = c.pw
        /\ lastOp' = [op |-> "create_mosquitto_user", username |-> username,
                      ret |-> c.ok]
        /\ UNCHANGED <<aclFile, restartLog, resp, tornWrites>>
        /\ UNCHANGED notHubVars

CallUpdateAcl(username, asset_id, io) ==
    /\ HasRoom(aclFile)
    /\ MayTear(io)
    /\ tornWrites' = IF io = "write_error" THEN tornWrites + 1 ELSE tornWrites
    /\ \E a \in update_acl_file(aclFile, username, asset_id, io) :
         /\ aclFile' = a.acl
         /\ lastOp' = [op |-> "update_acl_file", username |-> username,
                       asset_id |-> asset_id, ret |-> a.ok]
    /\ UNCHANGED <<pwFile, restartLog, resp>>
    /\ UNCHANGED notHubVars

-----------------------------------------------------------------------------
(* The hub's configuration: load_config, get_config, get_drone_config *)

\* DEFAULT_CONFIG of hub_manager_api.py
HUB_DEFAULT_CONFIG ==
    [mode |-> "LAN", lan_broker_ip |-> "192.168.4.1", lan_broker_port |-> 1883,
     vpn_broker_ip |-> "100.x.x.x", vpn_broker_port |-> 1883,
     headscale_server |-> "headscale.local", headscale_port |-> 443,
     current_mode |-> "LAN"]

\* load_config(): the decoded file when it exists and decodes, DEFAULT_CONFIG
\* otherwise. shared: the value returned is the DEFAULT_CONFIG object itself,
\* not a copy.
hub_load_config(file, defaults) ==
    IF file.state = "valid"
    THEN [shared |-> FALSE, value |-> file.json]
    ELSE [shared |-> TRUE, value |-> Dict(defaults)]

\* config.get(key, default)
ConfigGet(c, key, default) == IF key \in DOMAIN c.v THEN c.v[key] ELSE default

\* the host with the branch on current_mode left out
DroneConfigHostLanOnly(c) == ConfigGet(c, "lan_broker_ip", "192.168.4.1")

\* the port of the drone's config: line 206, no later line assigns mqtt_port
DroneConfigPort(c) == ConfigGet(c, "lan_broker_port", 1883)

\* the host of the drone's config: lines 205 and 216-217
DroneConfigHost(c) ==
    IF ConfigGet(c, "current_mode", "None") = "VPN"
    THEN ConfigGet(c, "vpn_broker_ip", "100.x.x.x")
    ELSE ConfigGet(c, "lan_broker_ip", "192.168.4.1")

\* get_drone_config(drone_asset_id) for the config c that load_config returned
get_drone_config(drone_asset_id, c) ==
    IF c.t # "dict"
    THEN Error(500, "object has no attribute 'get'")
    ELSE [code |-> 200,
          body |-> [drone_asset_id |-> drone_asset_id,
                    mqtt_host |-> DroneConfigHost(c),
                    mqtt_port |-> DroneConfigPort(c),
                    mqtt_user |-> "DRN_" \o drone_asset_id,
                    mqtt_pass |-> "changeme",
                    mavlink_port |-> "/dev/ttyUSB0",
                    mavlink_baud |-> 57600,
                    firmware_version |-> "1.0.0",
                    current_mode |-> ConfigGet(c, "current_mode", "LAN")]]

\* GET /api/drones/<drone_asset_id>/config
GetDroneConfig(drone_asset_id) ==
    /\ resp' = get_drone_config(drone_asset_id,
                                hub_load_config(cfgFile, defaultConfig).value)
    /\ lastOp' = [op |-> "get_drone_config", drone_asset_id |-> drone_asset_id]
    /\ UNCHANGED <<cfgVars, restartLog>>
    /\ UNCHANGED notCfgVars

\* GET /api/config/get
GetConfig ==
    /\ resp' = [code |-> 200, body |-> hub_load_config(cfgFile, defaultConfig).value]
    /\ lastOp' = [op |-> "get_config"]
    /\ UNCHANGED <<cfgVars, restartLog>>
    /\ UNCHANGED notCfgVars

(* save_config, set_config *)

\* what the filesystem does during save_config: makedirs or open(...,'w')
\* fails, or json.dump fails after open has truncated the file
SaveOutcomes == {"ok", "open_error", "write_error"}

\* save_config(config): [ok, file] the return value and the file afterwards
save_config(file, c, io) ==
    CASE io = "ok"          -> [ok |-> TRUE, file |-> [state |-> "valid", json |-> c]]
      [] io = "open_error"  -> [ok |-> FALSE, file |-> file]
      [] io = "write_error" -> [ok |-> FALSE,
                                file |-> [state |-> "malformed", json |-> [t |-> "null"]]]

\* allowed_fields of set_config
AllowedFields ==
    {"mode", "lan_broker_ip", "lan_broker_port", "vpn_broker_ip", "vpn_broker_port",
     "headscale_server", "headscale_port", "current_mode"}

\* the loop of lines 130-132 on a dict: config[field] = data[field]
Assigned(c, data) ==
    [k \in DOMAIN c \cup (DOMAIN data \cap AllowedFields) |->
        IF k \in DOMAIN data \cap AllowedFields THEN data[k] ELSE c[k]]

\* set_config for request body data: [resp, file, defaults] the answer, the
\* config file and DEFAULT_CONFIG afterwards
set_config(data, file, defaults, io) ==
    LET l == hub_load_config(file, defaults)
    IN  IF data.t # "dict"
        THEN \* "field in data" raises TypeError: the outer except answers 500
             [resp |-> Error(500, "argument of type 'NoneType' is not iterable"),
              file |-> file, defaults |-> defaults, saved |-> "skipped"]
        ELSE IF l.value.t # "dict"
        THEN IF DOMAIN data.v \cap AllowedFields # {}
             THEN \* config[field] = ... raises TypeError on a config that is no dict
                  [resp |-> Error(500, "indices must be integers"),
                   file |-> file, defaults |-> defaults, saved |-> "skipped"]
             ELSE LET s == save_config(file, l.value, io)
                  IN  [resp |-> IF s.ok
                                THEN [code |-> 200,
                                      body |-> [status |-> "success", config |-> l.value]]
                                ELSE Error(500, "Failed to save config"),
                       file |-> s.file, defaults |-> defaults, saved |-> StepLabel(s.ok)]
        ELSE LET c == Assigned(l.value.v, data.v)
                 s == save_config(file, Dict(c), io)
             IN  [resp |-> IF s.ok
                           THEN [code |-> 200,
                                 body |-> [status |-> "success", config |-> Dict(c)]]
                           ELSE Error(500, "Failed to save config"),
                  file |-> s.file,
                  defaults |-> IF l.shared THEN c ELSE defaults,
                  saved |-> StepLabel(s.ok)]

\* POST /api/config/set
SetConfig(data, io) ==
    LET r == set_config(data, cfgFile, defaultConfig, io)
    IN  /\ resp' = r.resp
        /\ cfgFile' = r.file
        /\ defaultConfig' = r.defaults
        /\ lastOp' = [op |-> "set_config", data |-> data, saved |-> r.saved]
        /\ UNCHANGED restartLog
        /\ UNCHANGED notCfgVars

\* a config with every field, in VPN mode
HubVpnConfig ==
    [mode |-> "VPN", lan_broker_ip |-> "192.168.4.1", lan_broker_port |-> 1883,
     vpn_broker_ip |-> "100.64.0.1", vpn_broker_port |-> 8883,
     headscale_server |-> "headscale.local", headscale_port |-> 443,
     current_mode |-> "VPN"]

\* the config files the hub is started with
HubConfigFiles ==
    { [state |-> "absent", json |-> [t |-> "null"]],
      [state |-> "malformed", json |-> [t |-> "null"]],
      [state |-> "valid", json |-> Dict(HubVpnConfig)],
      [state |-> "valid", json |-> Dict([current_mode |-> "VPN"])],
      [state |-> "valid", json |-> [t |-> "list", items |-> <<>>]] }

\* the bodies of the requests to /api/config/set
SetConfigBodies ==
    { NoBody,
      Dict([hostname |-> "hub2"]),
      Dict([current_mode |-> "VPN"]),
      Dict([current_mode |-> "LAN"]),
      Dict([vpn_broker_ip |-> "100.64.0.1"]),
      Dict([vpn_broker_port |-> 8883]) }

\* the hub process has started: DEFAULT_CONFIG as defined, some config file
ConfigInit ==
    /\ cfgFile \in HubConfigFiles
    /\ defaultConfig = HUB_DEFAULT_CONFIG

-----------------------------------------------------------------------------
(* restart_service *)

\* service names a request may carry
ServiceNames == {"mosquitto", "wetty", "ssh"}

\* the bodies of the requests to /api/service/restart: no JSON body, an
\* object without "services", and objects with a list of up to two names
RestartBodies ==
    {NoBody, Dict(<<>>)}
        \cup { Dict([services |-> l]) :
                  l \in {<<>>} \cup { <<a>> : a \in ServiceNames }
                             \cup { <<a, b>> : a, b \in ServiceNames } }

\* data.get('services', ['mosquitto'])
ServicesOf(data) ==
    IF "services" \in DOMAIN data.v THEN data.v["services"] ELSE <<"mosquitto">>

\* the loop of lines 236-244 on the service manager: one
\* sudo systemctl restart <service>  per name, in order
RECURSIVE RestartAll(_, _, _)
RestartAll(log, services, outcomes) ==
    IF services = <<>> THEN log
    ELSE RestartAll(Requested(log, Head(services), Head(outcomes)),
                    Tail(services), Tail(outcomes))

\* results[service]: "restarted" when subprocess.run returned, whatever the
\* return code; the error text when it raised
ResultText(outcome) ==
    IF outcome \in {"ok", "nonzero"} THEN "restarted" ELSE "error: " \o outcome

\* the results dict: a later entry for the same name replaces an earlier one
RestartResults(services, outcomes) ==
    [ name \in { services[i] : i \in DOMAIN services } |->
        ResultText(outcomes[CHOOSE i \in DOMAIN services :
                              /\ services[i] = name
                              /\ \A j \in DOMAIN services : services[j] = name => j <= i]) ]

\* restart_service for request body data; outcomes[i] is what the i-th
\* systemctl call does: [resp, log]
restart_service(data, log, outcomes) ==
    IF data.t # "dict"
    THEN [resp |-> Error(500, "'NoneType' object has no attribute 'get'"), log |-> log]
    ELSE [resp |-> [code |-> 200,
                    body |-> [status |-> "completed",
                              results |-> RestartResults(ServicesOf(data), outcomes)]],
          log |-> RestartAll(log, ServicesOf(data), outcomes)]

\* POST /api/service/restart
RestartService(data, outcomes) ==
    LET r == restart_service(data, restartLog, outcomes)
    IN  /\ Len(restartLog) < MaxRestarts
        /\ resp' = r.resp
        /\ restartLog' = r.log
        /\ lastOp' = [op |-> "restart_service", data |-> data]
        /\ UNCHANGED cfgVars
        /\ UNCHANGED notCfgVars

\* what the systemctl calls of a request for data may do
OutcomesFor(data) ==
    IF data.t # "dict" THEN {<<>>}
    ELSE [1..Len(ServicesOf(data)) -> RestartOutcomes]

-----------------------------------------------------------------------------
NoOp == [op |-> "none"]
NoResp == [code |-> 0, body |-> [error |-> ""]]

\* no config file yet, DEFAULT_CONFIG as the module defines it
CfgIdle ==
    /\ cfgFile = [state |-> "absent", json |-> [t |-> "null"]]
    /\ defaultConfig = HUB_DEFAULT_CONFIG

\* no request is being served
ServeIdle == handlers = [t \in Threads |-> [pc |-> "idle", data |-> NoBody]]

HubInit ==
    /\ CfgIdle
    /\ ServeIdle
    /\ pwFile = <<>>
    /\ aclFile \in { [exists |-> FALSE, lines |-> <<>>], [exists |-> TRUE, lines |-> <<>>] }
    /\ restartLog = <<>>
    /\ resp = NoResp
    /\ tornWrites = 0
    /\ lastOp = NoOp

\* the stores as they are before any request
StoreIdle ==
    /\ ServeIdle
    /\ pwFile = <<>>
    /\ aclFile = [exists |-> FALSE, lines |-> <<>>]
    /\ restartLog = <<>>
    /\ resp = NoResp
    /\ tornWrites = 0
    /\ lastOp = NoOp

HubIdle ==
    /\ CfgIdle
    /\ ServeIdle
    /\ pwFile = <<>>
    /\ aclFile = [exists |-> FALSE, lines |-> <<>>]
    /\ restartLog = <<>>
    /\ resp = NoResp
    /\ tornWrites = 0
    /\ lastOp = NoOp

-----------------------------------------------------------------------------
(* The bridge's topics *)

\* on_connect: the topic the bridge subscribes to for commands
command_topic(config) == "drone/" \o config["drone_asset_id"] \o "/command"
\* telemetry_publisher: the topics HEARTBEAT and GLOBAL_POSITION_INT go to
status_topic(config) == "drone/" \o config["drone_asset_id"] \o "/status"
telemetry_topic(config) == "drone/" \o config["drone_asset_id"] \o "/telemetry"

-----------------------------------------------------------------------------
(* The bridge's configuration loading: load_config and what it calls *)

JsonNull    == [t |-> "null"]
JsonList(l) == [t |-> "list", items |-> l]
JsonNum(n)  == [t |-> "num", n |-> n]
EmptyObject == Dict([k \in {} |-> ""])

\* Python's truth value of a decoded JSON value
Truthy(j) ==
    CASE j.t = "null" -> FALSE
      [] j.t = "dict" -> DOMAIN j.v # {}
      [] j.t = "list" -> j.items # <<>>
      [] j.t = "num"  -> j.n # 0
      [] OTHER        -> TRUE

DEFAULT_CONFIG ==
    [drone_asset_id   |-> "DRONE_001",
     mqtt_host        |-> "192.168.4.1",
     mqtt_port        |-> 1883,
     mqtt_user        |-> "drone_user",
     mqtt_pass        |-> "changeme",
     mavlink_port     |-> "/dev/ttyUSB0",
     mavlink_baud     |-> 57600,
     firmware_version |-> "1.0.0",
     current_mode     |-> "LAN"]

\* load_local_config(): the decoded file, or None (JsonNull) when the file
\* is absent, cannot be read or does not parse
load_local_config(file) ==
    IF file.state = "valid" THEN file.json ELSE JsonNull

\* os.getenv(name, default)
getenv(env, name, default) == IF env[name].set THEN env[name].val ELSE default

DigitChars == <<"0", "1", "2", "3", "4", "5", "6", "7", "8", "9">>
IsDigit(c) == \E i \in DOMAIN DigitChars : DigitChars[i] = c
DigitOf(c) == (CHOOSE i \in DOMAIN DigitChars : DigitChars[i] = c) - 1

RECURSIVE Strip(_)
Strip(cs) ==
    IF cs # <<>> /\ Head(cs) = " " THEN Strip(Tail(cs))
    ELSE IF cs # <<>> /\ cs[Len(cs)] = " " THEN Strip(SubSeq(cs, 1, Len(cs) - 1))
    ELSE cs

RECURSIVE DigitsValue(_)
DigitsValue(ds) ==
    IF ds = <<>> THEN 0
    ELSE 10 * DigitsValue(SubSeq(ds, 1, Len(ds) - 1)) + DigitOf(ds[Len(ds)])

\* int(text) for a str, given as its characters: blanks around it are
\* dropped, one sign is allowed, the rest must be decimal digits
\* (underscores between digits are not among the modelled characters)
IntOfText(cs) ==
    LET t == Strip(cs)
        signed == t # <<>> /\ Head(t) \in {"-", "+"}
        ds == IF signed THEN Tail(t) ELSE t
    IN  IF ds # <<>> /\ \A i \in DOMAIN ds : IsDigit(ds[i])
        THEN [ok |-> TRUE,
              val |-> IF signed /\ Head(t) = "-" THEN 0 - DigitsValue(ds) ELSE DigitsValue(ds)]
        ELSE [ok |-> FALSE, val |-> 0]

\* int(os.getenv(name, default)): the default is already an int
IntOfEnv(env, name, default) ==
    IF env[name].set THEN IntOfText(env[name].val) ELSE [ok |-> TRUE, val |-> default]

\* load_config_from_env(): [ok, cfg], or ok = FALSE when int() raises ValueError
load_config_from_env(env) ==
    LET port == IntOfEnv(env, "MQTT_PORT", DEFAULT_CONFIG.mqtt_port)
        baud == IntOfEnv(env, "MAVLINK_BAUD", DEFAULT_CONFIG.mavlink_baud)
    IN  IF ~port.ok \/ ~baud.ok
        THEN [ok |-> FALSE, cfg |-> DEFAULT_CONFIG]
        ELSE [ok |-> TRUE,
              cfg |-> [DEFAULT_CONFIG EXCEPT
                 !.drone_asset_id = getenv(env, "DRONE_ASSET_ID", @),
                 !.mqtt_host      = getenv(env, "MQTT_HOST", @),
                 !.mqtt_port      = port.val,
                 !.mqtt_user      = getenv(env, "MQTT_USER", @),
                 !.mqtt_pass      = getenv(env, "MQTT_PASS", @),
                 !.mavlink_port   = getenv(env, "MAVLINK_PORT", @),
                 !.mavlink_baud   = baud.val]]

\* fetch_config_from_api with the status check left out: the body of any
\* response that decodes is returned
FetchIgnoringStatus(drone_asset_id, r) ==
    IF r.net # "ok" THEN JsonNull
    ELSE IF r.body.t = "invalid" THEN JsonNull
    ELSE r.body

\* fetch_config_from_api(drone_asset_id): the decoded body, or None
fetch_config_from_api(drone_asset_id, r) ==
    IF r.net # "ok" THEN JsonNull                 \* requests.get raised
    ELSE IF r.status = 200
    THEN IF r.body.t = "invalid" THEN JsonNull    \* response.json() raised
         ELSE r.body
    ELSE JsonNull

\* dict.update(other) for a dict
UpdateFromDict(cfg, other) ==
    [k \in DOMAIN cfg \cup DOMAIN other |->
        IF k \in DOMAIN other THEN other[k] ELSE cfg[k]]

\* dict.update(other) for a list: its elements are taken as key / value
\* pairs one after the other, and the first that is no pair raises, the
\* pairs before it already stored
RECURSIVE UpdateFromList(_, _)
UpdateFromList(cfg, l) ==
    IF l = <<>> THEN cfg
    ELSE IF Head(l).t = "list" /\ Len(Head(l).items) = 2
    THEN UpdateFromList(UpdateFromDict(cfg, [k \in {Head(l).items[1]} |-> Head(l).items[2]]),
                        Tail(l))
    ELSE cfg

\* config.update(api_config) inside try / except Exception
Update(cfg, api) ==
    CASE api.t = "dict" -> UpdateFromDict(cfg, api.v)
      [] api.t = "list" -> UpdateFromList(cfg, api.items)
      [] OTHER          -> cfg

Returned(j, consulted) == [kind |-> "return", value |-> j, fetched |-> consulted]
Raised(exc)            == [kind |-> "raise", exc |-> exc, fetched |-> FALSE]

\* load_config(): what it returns or raises, and whether it asked the hub
load_config(file, env, r) ==
    LET local == load_local_config(file)
        tier2 == load_config_from_env(env)
    IN  IF Truthy(local) THEN Returned(local, FALSE)
        ELSE IF ~tier2.ok THEN Raised("ValueError")
        ELSE LET api == fetch_config_from_api(tier2.cfg.drone_asset_id, r)
             IN  IF Truthy(api)
                 THEN Returned(Dict(Update(tier2.cfg, api)), TRUE)
                 ELSE Returned(Dict(tier2.cfg), TRUE)

(* Inputs *)

Unset      == [set |-> FALSE, val |-> ""]
Set(v)     == [set |-> TRUE, val |-> v]
UnsetText  == [set |-> FALSE, val |-> <<>>]

Environs ==
    [DRONE_ASSET_ID : {Unset, Set("D2")},
     MQTT_HOST      : {Unset, Set("10.0.0.2")},
     MQTT_PORT      : {UnsetText, Set(<<"1", "8", "8", "4">>), Set(<<"x">>), Set(<<>>)},
     MQTT_USER      : {Unset, Set("DRN_D2")},
     MQTT_PASS      : {Unset, Set("pw2")},
     MAVLINK_PORT   : {Unset, Set("/dev/ttyACM0")},
     MAVLINK_BAUD   : {UnsetText, Set(<<" ", "9", "6", " ">>), Set(<<"-", "1">>)}]

LocalFull ==
    Dict([drone_asset_id |-> "D1", mqtt_host |-> "10.0.0.1", mqtt_port |-> 8883,
          mqtt_user |-> "DRN_D1", mqtt_pass |-> "pw1", mavlink_port |-> "/dev/ttyAMA0",
          mavlink_baud |-> 115200, firmware_version |-> "2.0.0", current_mode |-> "VPN"])

LocalFiles ==
    { [state |-> "absent", json |-> JsonNull],
      [state |-> "unreadable", json |-> JsonNull],
      [state |-> "malformed", json |-> JsonNull] }
    \cup { [state |-> "valid", json |-> j] :
             j \in { LocalFull, Dict([drone_asset_id |-> "D1"]), EmptyObject } }

InvalidBody == [t |-> "invalid"]

RemoteFull ==
    Dict([drone_asset_id |-> "D2", mqtt_host |-> "100.64.0.1", mqtt_port |-> 1883,
          mqtt_user |-> "DRN_D2", mqtt_pass |-> "changeme", mavlink_port |-> "/dev/ttyUSB0",
          mavlink_baud |-> 57600, firmware_version |-> "1.0.0", current_mode |-> "VPN"])

Remotes ==
    { [net |-> "error", status |-> 0, body |-> InvalidBody],
      [net |-> "timeout", status |-> 0, body |-> InvalidBody],
      [net |-> "ok", status |-> 500, body |-> Dict([error |-> "boom"])],
      [net |-> "ok", status |-> 404, body |-> InvalidBody],
      [net |-> "ok", status |-> 200, body |-> InvalidBody],
      [net |-> "ok", status |-> 200, body |-> RemoteFull],
      [net |-> "ok", status |-> 200, body |-> EmptyObject],
      [net |-> "ok", status |-> 200, body |-> JsonNum(7)],
      [net |-> "ok", status |-> 200,
       body |-> JsonList(<< JsonList(<<"mqtt_host", "100.64.0.9">>), JsonNum(7) >>)] }

Pending == [kind |-> "pending"]

ResolveInit ==
    /\ localFile \in LocalFiles
    /\ environ \in Environs
    /\ remote \in Remotes
    /\ loaded = Pending

ResolveIdle ==
    /\ localFile = [state |-> "absent", json |-> JsonNull]
    /\ environ = [n \in {} |-> Unset]
    /\ remote = [net |-> "error", status |-> 0, body |-> InvalidBody]
    /\ loaded = Pending

LoadConfig ==
    /\ loaded = Pending
    /\ loaded' = load_config(localFile, environ, remote)
    /\ UNCHANGED <<localFile, environ, remote>>
    /\ UNCHANGED notResolveVars

-----------------------------------------------------------------------------
(* The bridge process: main, telemetry_publisher, on_connect, on_message *)

config == loaded.value.v

\* the keys main reads before it opens the link (lines 210-213)
MainKeys == {"drone_asset_id", "mqtt_host", "mqtt_port", "mavlink_port",
             "mavlink_baud", "firmware_version"}

VehicleMessages == {"HEARTBEAT", "GLOBAL_POSITION_INT", "ATTITUDE"}

\* a payload whose bytes are not UTF-8: msg.payload.decode() raises
Undecodable == [t |-> "undecodable"]

CommandPayloads ==
    { Undecodable, InvalidBody, JsonNum(5), EmptyObject,
      Dict([command |-> "fly"]),
      Dict([command |-> "arm"]),
      Dict([command |-> "disarm"]),
      Dict([command |-> "land"]),
      Dict([command |-> "takeoff"]),
      Dict([command |-> "takeoff", altitude |-> 25]) }

\* the states of main inside telemetry_publisher's while loop
LoopStates == {"poll", "recving", "sleep_short", "handle", "except", "backoff"}
\* the states of main inside the try of lines 230-236
TryStates == {"mqtt_connect", "loop_start"} \cup LoopStates
\* the states of main before that try
PreTryStates == {"load_config", "open_link", "wait_heartbeat"}

(* main *)

\* config = load_config(), then the log lines that read the config
MainLoadConfig ==
    /\ pcMain = "load_config"
    /\ loaded' = load_config(localFile, environ, remote)
    /\ IF loaded'.kind = "return" /\ loaded'.value.t = "dict"
          /\ MainKeys \subseteq DOMAIN loaded'.value.v
       THEN pcMain' = "open_link" /\ UNCHANGED stopCause
       ELSE pcMain' = "exited" /\ stopCause' = "config_error"
    /\ UNCHANGED <<link, cur, erred, netVars, linkIn, published>>
    /\ UNCHANGED notBridgeVars

\* main without its mav.wait_heartbeat(): once the port is open it goes on
\* to the MQTT connection
MainOpenLinkNoHandshake ==
    /\ pcMain = "open_link"
    /\ \/ link' = "open" /\ pcMain' = "mqtt_connect" /\ UNCHANGED stopCause
       \/ pcMain' = "exited" /\ stopCause' = "link_error" /\ UNCHANGED link
    /\ UNCHANGED <<loaded, cur, erred, netVars, linkIn, published>>
    /\ UNCHANGED notBridgeVars

\* mav = mavutil.mavlink_connection(...): the port opens, or the call raises
\* and main exits with status 1
MainOpenLink ==
    /\ pcMain = "open_link"
    /\ \/ link' = "open" /\ pcMain' = "wait_heartbeat" /\ UNCHANGED stopCause
       \/ pcMain' = "exited" /\ stopCause' = "link_error" /\ UNCHANGED link
    /\ UNCHANGED <<loaded, cur, erred, netVars, linkIn, published>>
    /\ UNCHANGED notBridgeVars

\* mav.wait_heartbeat(), called with no timeout: it reads the link until a
\* HEARTBEAT arrives, dropping every other message
MainWaitHeartbeat ==
    /\ pcMain = "wait_heartbeat"
    /\ linkIn # <<>>
    /\ linkIn' = Tail(linkIn)
    /\ IF Head(linkIn) = "HEARTBEAT"
       THEN link' = "ready" /\ pcMain' = "mqtt_connect"
       ELSE UNCHANGED <<link, pcMain>>
    /\ UNCHANGED <<loaded, stopCause, cur, erred, netVars, published>>
    /\ UNCHANGED notBridgeVars

\* the read of the link raises while waiting: except Exception, sys.exit(1)
MainWaitHeartbeatFails ==
    /\ pcMain = "wait_heartbeat"
    /\ pcMain' = "exited"
    /\ stopCause' = "link_error"
    /\ UNCHANGED <<loaded, link, cur, erred, netVars, linkIn, published>>
    /\ UNCHANGED notBridgeVars

\* mqtt_client.connect(...): it returns, or raises and main goes through
\* except (sys.exit(1)) to finally
MainMqttConnect ==
    /\ pcMain = "mqtt_connect"
    /\ \/ pcMain' = "loop_start" /\ UNCHANGED stopCause
       \/ pcMain' = "finally" /\ stopCause' = "connect_error"
    /\ UNCHANGED <<loaded, link, cur, erred, netVars, linkIn, published>>
    /\ UNCHANGED notBridgeVars

\* mqtt_client.loop_start(), then telemetry_publisher(mqtt_client)
MainLoopStart ==
    /\ pcMain = "loop_start"
    /\ netThread' = "running"
    /\ pcMain' = "poll"
    /\ UNCHANGED <<loaded, stopCause, link, cur, erred, pcNet, payload, subscribed,
                   delivered, directives, linkIn, published>>
    /\ UNCHANGED notBridgeVars

(* telemetry_publisher *)

\* the poll loop re-raises what it caught instead of sleeping
AfterTelemetryErrorRaise == "finally"

\* except Exception as e: logger.error(...); time.sleep(1): where the loop
\* goes once it has caught an error
AfterTelemetryError == "backoff"

\* msg = mav.recv_match(blocking=False) is entered
PollRecvBegin ==
    /\ pcMain = "poll"
    /\ pcMain' = "recving"
    /\ UNCHANGED <<loaded, stopCause, link, cur, erred, netVars, linkIn, published>>
    /\ UNCHANGED notBridgeVars

\* recv_match returns None, returns the next message, or raises
PollRecvEnd ==
    /\ pcMain = "recving"
    /\ \/ /\ linkIn = <<>>
          /\ pcMain' = "sleep_short"
          /\ UNCHANGED <<cur, linkIn, erred>>
       \/ /\ linkIn # <<>>
          /\ cur' = Head(linkIn)
          /\ linkIn' = Tail(linkIn)
          /\ pcMain' = "handle"
          /\ UNCHANGED erred
       \/ /\ pcMain' = "except"
          /\ erred' = TRUE
          /\ UNCHANGED <<cur, linkIn>>
    /\ UNCHANGED <<loaded, stopCause, link, netVars, published>>
    /\ UNCHANGED notBridgeVars

\* if not msg: time.sleep(0.1); continue
PollSleepShort ==
    /\ pcMain = "sleep_short"
    /\ pcMain' = "poll"
    /\ UNCHANGED <<loaded, stopCause, link, cur, erred, netVars, linkIn, published>>
    /\ UNCHANGED notBridgeVars

\* the topic a message kind is published to
TopicOf(kind) ==
    IF kind = "HEARTBEAT" THEN status_topic(config) ELSE telemetry_topic(config)

\* the message is published (HEARTBEAT, GLOBAL_POSITION_INT) or ignored,
\* or building / publishing it raises
PollHandle ==
    /\ pcMain = "handle"
    /\ \/ /\ cur \in {"HEARTBEAT", "GLOBAL_POSITION_INT"}
          /\ published' = published \cup {<<TopicOf(cur), cur>>}
          /\ pcMain' = "poll"
          /\ UNCHANGED erred
       \/ /\ cur \notin {"HEARTBEAT", "GLOBAL_POSITION_INT"}
          /\ pcMain' = "poll"
          /\ UNCHANGED <<published, erred>>
       \/ /\ cur \in {"HEARTBEAT", "GLOBAL_POSITION_INT"}
          /\ pcMain' = "except"
          /\ erred' = TRUE
          /\ UNCHANGED published
    /\ cur' = "none"
    /\ UNCHANGED <<loaded, stopCause, link, netVars, linkIn>>
    /\ UNCHANGED notBridgeVars

\* except Exception as e: logger.error(...)
PollExcept ==
    /\ pcMain = "except"
    /\ pcMain' = AfterTelemetryError
    /\ UNCHANGED <<loaded, stopCause, link, cur, erred, netVars, linkIn, published>>
    /\ UNCHANGED notBridgeVars

\* time.sleep(1), then the next iteration
PollBackoff ==
    /\ pcMain = "backoff"
    /\ pcMain' = "poll"
    /\ UNCHANGED <<loaded, stopCause, link, cur, erred, netVars, linkIn, published>>
    /\ UNCHANGED notBridgeVars

(* the way out: KeyboardInterrupt, and main's finally *)

\* SIGINT raises KeyboardInterrupt in the main thread: no except Exception
\* catches it. Inside the try of line 230 main goes to finally; before it the
\* process ends there and then.
Interrupt ==
    /\ stopCause = "none"
    /\ pcMain \in TryStates \cup PreTryStates
    /\ stopCause' = "interrupt"
    /\ pcMain' = IF pcMain \in TryStates THEN "finally" ELSE "exited"
    /\ UNCHANGED <<loaded, link, cur, erred, netVars, linkIn, published>>
    /\ UNCHANGED notBridgeVars

\* the finally clause without its loop_stop(): main goes straight on to
\* mav.close()
FinallyWithoutLoopStop ==
    /\ pcMain = "finally"
    /\ pcMain' = "close_link"
    /\ UNCHANGED <<loaded, stopCause, link, cur, erred, netVars, linkIn, published>>
    /\ UNCHANGED notBridgeVars

\* finally: mqtt_client.loop_stop() joins the network thread, which ends
\* once the callback it is running has returned (or has raised)
FinallyLoopStop ==
    /\ pcMain = "finally"
    /\ pcNet \in {"idle", "raised"}
    /\ netThread' = IF netThread = "running" THEN "stopped" ELSE netThread
    /\ pcMain' = "close_link"
    /\ UNCHANGED <<loaded, stopCause, link, cur, erred, pcNet, payload, subscribed,
                   delivered, directives, linkIn, published>>
    /\ UNCHANGED notBridgeVars

\* finally: mav.close()
FinallyClose ==
    /\ pcMain = "close_link"
    /\ link' = "closed"
    /\ pcMain' = "exited"
    /\ UNCHANGED <<loaded, stopCause, cur, erred, netVars, linkIn, published>>
    /\ UNCHANGED notBridgeVars

(* the network thread: on_connect, on_message *)

\* on_connect(client, userdata, flags, rc): subscribes when rc == 0
OnConnect(rc) ==
    /\ netThread = "running"
    /\ pcNet = "idle"
    /\ subscribed' = IF rc = 0 THEN subscribed \cup {command_topic(config)} ELSE subscribed
    /\ UNCHANGED <<mainVars, loaded, netThread, pcNet, payload, delivered, directives,
                   linkIn, published>>
    /\ UNCHANGED notBridgeVars

\* the broker delivers a message on a subscribed topic: on_message is called
Deliver(p) ==
    /\ netThread = "running"
    /\ pcNet = "idle"
    /\ subscribed # {}
    /\ delivered < MaxCommands
    /\ delivered' = delivered + 1
    /\ payload' = p
    /\ pcNet' = "on_message"
    /\ UNCHANGED <<mainVars, loaded, netThread, subscribed, directives, linkIn, published>>
    /\ UNCHANGED notBridgeVars

\* no callback is running
NoPayload == [t |-> "none"]

\* payload.get('command') for a decoded object
CommandOf(p) == IF "command" \in DOMAIN p.v THEN p.v["command"] ELSE "None"

\* the altitude argument with the payload's altitude left unread
AltitudeAlwaysDefault(p) == 10

\* payload.get('altitude', 10)
AltitudeOf(p) == IF "altitude" \in DOMAIN p.v THEN p.v["altitude"] ELSE 10

\* the arguments of mav.mav.command_long_send that differ between the four
\* directives: the command id, param1 and param7
Directive(p) ==
    CASE CommandOf(p) = "arm"     -> [command |-> 400, param1 |-> 1, param7 |-> 0]
      [] CommandOf(p) = "disarm"  -> [command |-> 400, param1 |-> 0, param7 |-> 0]
      [] CommandOf(p) = "takeoff" -> [command |-> 22, param1 |-> 0, param7 |-> AltitudeOf(p)]
      [] CommandOf(p) = "land"    -> [command |-> 21, param1 |-> 0, param7 |-> 0]

Recognized == {"arm", "disarm", "takeoff", "land"}

\* the exceptions the statements of on_message's try raise and that its
\* handlers take: except json.JSONDecodeError, then except Exception
OnMessageCaughtDecodeErrorOnly == {"JSONDecodeError"}

OnMessageCaught ==
    {"JSONDecodeError", "UnicodeDecodeError", "AttributeError", "OSError"}

\* what json.loads(msg.payload.decode()) and payload.get('command') raise
DecodeRaises(p) ==
    CASE p.t = "undecodable" -> "UnicodeDecodeError"
      [] p.t = "invalid"     -> "JSONDecodeError"
      [] p.t # "dict"        -> "AttributeError"
      [] OTHER               -> "none"

\* where the network thread is after exc was raised in the try: back in its
\* loop when a handler took it, ended by the exception otherwise
AfterRaise(exc) == IF exc \in OnMessageCaught THEN "idle" ELSE "raised"

\* on_message up to the call of command_long_send: a payload that does not
\* decode, is no object, or names no known command ends the callback
OnMessageDecode ==
    /\ pcNet = "on_message"
    /\ pcNet' = IF DecodeRaises(payload) # "none"
                THEN AfterRaise(DecodeRaises(payload))
                ELSE IF CommandOf(payload) \in Recognized THEN "sending" ELSE "idle"
    /\ UNCHANGED <<mainVars, loaded, netThread, payload, subscribed, delivered,
                   directives, linkIn, published>>
    /\ UNCHANGED notBridgeVars

\* command_long_send returns, the directive written to the link, or raises
\* (the write to the port fails)
OnMessageSendEnd ==
    /\ pcNet = "sending"
    /\ \/ directives' = Append(directives, Directive(payload)) /\ pcNet' = "idle"
       \/ UNCHANGED directives /\ pcNet' = AfterRaise("OSError")
    /\ UNCHANGED <<mainVars, loaded, netThread, payload, subscribed, delivered,
                   linkIn, published>>
    /\ UNCHANGED notBridgeVars

(* the vehicle *)

\* the vehicle writes a message to the link the running bridge holds open
VehicleSends(m) ==
    /\ link \in {"open", "ready"}
    /\ pcMain # "exited"
    /\ Len(linkIn) < MaxLinkIn
    /\ linkIn' = Append(linkIn, m)
    /\ UNCHANGED <<mainVars, loaded, netVars, published>>
    /\ UNCHANGED notBridgeVars

BridgeIdle ==
    /\ pcMain = "load_config"
    /\ stopCause = "none"
    /\ link = "none"
    /\ linkIn = <<>>
    /\ cur = "none"
    /\ erred = FALSE
    /\ netThread = "off"
    /\ pcNet = "idle"
    /\ payload = [t |-> "none"]
    /\ subscribed = {}
    /\ delivered = 0
    /\ directives = <<>>
    /\ published = {}

NoEnviron ==
    [DRONE_ASSET_ID |-> Unset, MQTT_HOST |-> Unset, MQTT_PORT |-> UnsetText,
     MQTT_USER |-> Unset, MQTT_PASS |-> Unset, MAVLINK_PORT |-> Unset,
     MAVLINK_BAUD |-> UnsetText]

\* the files, environments and hub answers the bridge is started with
BridgeInputs ==
    { [file |-> [state |-> "absent", json |-> JsonNull], env |-> NoEnviron,
       hub |-> [net |-> "ok", status |-> 200, body |-> RemoteFull]],
      [file |-> [state |-> "valid", json |-> Dict([drone_asset_id |-> "D1"])],
       env |-> NoEnviron,
       hub |-> [net |-> "ok", status |-> 200, body |-> RemoteFull]],
      [file |-> [state |-> "malformed", json |-> JsonNull],
       env |-> [NoEnviron EXCEPT !.MQTT_PORT = Set(<<"x">>)],
       hub |-> [net |-> "error", status |-> 0, body |-> InvalidBody]] }

MainStep ==
    \/ MainLoadConfig \/ MainOpenLink \/ MainWaitHeartbeat \/ MainMqttConnect
    \/ MainLoopStart \/ PollRecvBegin \/ PollRecvEnd \/ PollSleepShort
    \/ PollHandle \/ PollExcept \/ PollBackoff \/ FinallyLoopStop \/ FinallyClose

NetStep == OnMessageDecode \/ OnMessageSendEnd

Environment ==
    \/ MainWaitHeartbeatFails
    \/ Interrupt
    \/ \E rc \in {0, 5} : OnConnect(rc)
    \/ \E p \in CommandPayloads : Deliver(p)
    \/ \E m \in VehicleMessages : VehicleSends(m)

-----------------------------------------------------------------------------
(* Specifications *)

\* the hub's enrollment handler, one request at a time
Init == HubInit /\ ResolveIdle /\ BridgeIdle

Next ==
    \E data \in AddAssetBodies, e \in Envs : AddAsset(data, e)

Spec == Init /\ [][Next]_vars

\* the store functions applied directly, and the device config read back
\* from the hub afterwards
StoreNext ==
    \/ \E u \in Usernames, p \in Passwords, t \in ToolOutcomes : CallCreateUser(u, p, t)
    \/ \E u \in Usernames, a \in AssetIds, io \in AclIoOutcomes : CallUpdateAcl(u, a, io)
    \/ \E d \in AssetIds : GetDroneConfig(d)

SpecStore == Init /\ [][StoreNext]_vars

\* the hub's server with its request threads, enrollment requests only
ServeNext ==
    \/ \E t \in Threads, data \in AddAssetBodies : AddAssetBegin(t, data)
    \/ \E t \in Threads, e \in Envs : AddAssetStep(t, e)

SpecServe == Init /\ [][ServeNext]_vars

\* the hub's service restart handler
InitService == HubIdle /\ ResolveIdle /\ BridgeIdle

ServiceNext ==
    \E data \in RestartBodies : \E outcomes \in OutcomesFor(data) :
        RestartService(data, outcomes)

SpecService == InitService /\ [][ServiceNext]_vars

\* the hub's config handlers
InitConfig == StoreIdle /\ ConfigInit /\ ResolveIdle /\ BridgeIdle

ConfigNext ==
    \/ GetConfig
    \/ \E data \in SetConfigBodies, io \in SaveOutcomes : SetConfig(data, io)
    \/ \E d \in AssetIds : GetDroneConfig(d)

SpecConfig == InitConfig /\ [][ConfigNext]_vars

\* load_config() applied to every local file, environment and hub answer
InitResolve == HubIdle /\ ResolveInit /\ BridgeIdle

ResolveNext == LoadConfig

SpecResolve == InitResolve /\ [][ResolveNext]_vars

\* the bridge process, started with each of BridgeInputs
InitBridge ==
    /\ HubIdle
    /\ \E i \in BridgeInputs : localFile = i.file /\ environ = i.env /\ remote = i.hub
    /\ loaded = Pending
    /\ BridgeIdle

BridgeNext == MainStep \/ NetStep \/ Environment

SpecBridge == InitBridge /\ [][BridgeNext]_vars

\* the bridge with its two threads scheduled: a thread that can take a step
\* eventually takes one. Nothing makes the vehicle, the broker or the
\* operator act.
FairSpecBridge == SpecBridge /\ WF_vars(MainStep) /\ WF_vars(NetStep)

-----------------------------------------------------------------------------
(* The access rules the broker reads from an ACL file: a "topic" line grants
   its permission to the user of the closest "user" line above it (to the
   anonymous user "" when there is none); other lines grant nothing. *)

RECURSIVE RulesFrom(_, _)
RulesFrom(lines, user) ==
    IF lines = <<>> THEN <<>>
    ELSE LET l == Head(lines)
         IN  IF Len(l) = 2 /\ l[1] = "user"
             THEN RulesFrom(Tail(lines), l[2])
             ELSE IF Len(l) = 3 /\ l[1] = "topic"
             THEN <<[user |-> user, perm |-> l[2], topic |-> l[3]]>>
                     \o RulesFrom(Tail(lines), user)
             ELSE RulesFrom(Tail(lines), user)

AclRules(acl) == RulesFrom(acl.lines, "")

Range(s) == { s[i] : i \in DOMAIN s }

\* the lines a step appended to the ACL file
Appended(before, after) ==
    SubSeq(after.lines, Len(before.lines) + 1, Len(after.lines))

\* some earlier call wrote the whole block of username / asset_id
HasBlock(acl, username, asset_id) ==
    \E i \in 0..(Len(acl.lines) - 6) :
        SubSeq(acl.lines, i + 1, i + 6) = NewAclRules(username, asset_id)

SuccessfulAclUpdate(op) == op.op = "update_acl_file" /\ op.ret

-----------------------------------------------------------------------------
(* Claims *)

\* C1: enrolling the same device_id with the same username a second time
\* leaves the access rules of the ACL store as they were after the first
\* enrollment: a successful update_acl_file for a username / asset_id whose
\* block is already in the file changes no rule (and so adds no duplicate).
C1_ReEnrollLeavesRulesUnchanged ==
    [][ ( /\ SuccessfulAclUpdate(lastOp')
          /\ HasBlock(aclFile, lastOp'.username, lastOp'.asset_id) )
        => AclRules(aclFile') = AclRules(aclFile) ]_vars

C3_WriteFailureStopsEnrollment ==
    [][ lastOp'.op = "add_asset" =>
          /\ lastOp'.cred = "failed" =>
                /\ resp'.code = 500
                /\ "error" \in DOMAIN resp'.body
                /\ aclFile' = aclFile
                /\ restartLog' = restartLog
          /\ lastOp'.aclStep = "failed" =>
                /\ resp'.code = 500
                /\ "error" \in DOMAIN resp'.body
                /\ restartLog' = restartLog ]_vars

\* C3 witness: an enrollment request with all fields whose credential upsert
\* failed was answered with the error, the ACL file still without a line
C3_CredentialFailureAnswered ==
    /\ lastOp.op = "add_asset"
    /\ lastOp.cred = "failed"
    /\ lastOp.aclStep = "skipped"
    /\ resp = Error(500, "Failed to create Mosquitto user")
    /\ aclFile.lines = <<>>
    /\ restartLog = <<>>

\* C4: the rules a successful update_acl_file(username, d) writes are exactly
\* write on the status topic, write on the telemetry topic and read on the
\* command topic of the bridge configured with drone_asset_id d.
C4_RulesMatchBridgeTopics ==
    [][ SuccessfulAclUpdate(lastOp') =>
          LET written == AclRules([lines |-> Appended(aclFile, aclFile')])
              u == lastOp'.username
              cfg == [drone_asset_id |-> lastOp'.asset_id]
          IN  /\ Len(written) = 3
              /\ Range(written) =
                    { [user |-> u, perm |-> "write", topic |-> status_topic(cfg)],
                      [user |-> u, perm |-> "write", topic |-> telemetry_topic(cfg)],
                      [user |-> u, perm |-> "read",  topic |-> command_topic(cfg)] } ]_vars

\* C4 witness: update_acl_file returned True for DRN_D1 / D1 and the file
\* holds its rules
C4_RulesWritten ==
    /\ SuccessfulAclUpdate(lastOp)
    /\ lastOp.username = "DRN_D1" /\ lastOp.asset_id = "D1"
    /\ [user |-> "DRN_D1", perm |-> "read", topic |-> "drone/D1/command"]
          \in Range(AclRules(aclFile))

\* the environment variable load_config_from_env reads for each key it overrides
EnvVarOf ==
    [drone_asset_id |-> "DRONE_ASSET_ID", mqtt_host |-> "MQTT_HOST",
     mqtt_port |-> "MQTT_PORT", mqtt_user |-> "MQTT_USER", mqtt_pass |-> "MQTT_PASS",
     mavlink_port |-> "MAVLINK_PORT", mavlink_baud |-> "MAVLINK_BAUD"]

\* the value of key k in the tier-2 result: the environment's value where the
\* variable is set (as an integer for the two numeric keys), else the default
Tier2Value(env, k) ==
    IF k \in DOMAIN EnvVarOf /\ env[EnvVarOf[k]].set
    THEN IF k \in {"mqtt_port", "mavlink_baud"}
         THEN IntOfText(env[EnvVarOf[k]].val).val
         ELSE env[EnvVarOf[k]].val
    ELSE DEFAULT_CONFIG[k]

RemoteFailed(r) == r.net \in {"error", "timeout"} \/ r.status # 200

\* C5: a local config file that is present and parses is returned as it is,
\* and the hub is not asked.
C5_ValidLocalFileReturnedVerbatim ==
    (loaded # Pending /\ localFile.state = "valid")
    => loaded = Returned(localFile.json, FALSE)

\* C6: with no valid local file and a failed fetch (network error, timeout or
\* a status other than 200), the config load_config returns is the tier-2
\* result: every default key, holding the environment's value where the
\* variable is set and the default otherwise, and no other key.
C6_FailedFetchKeepsTier2 ==
    ( /\ loaded # Pending
      /\ localFile.state # "valid"
      /\ loaded.fetched
      /\ RemoteFailed(remote) )
    => /\ loaded.kind = "return"
       /\ loaded.value.t = "dict"
       /\ DOMAIN loaded.value.v = DOMAIN DEFAULT_CONFIG
       /\ \A k \in DOMAIN DEFAULT_CONFIG : loaded.value.v[k] = Tier2Value(environ, k)

\* C6 witness: no local file, the fetch timed out, and the returned config
\* carries the environment's host and port beside the default user
C6_Tier2ReturnedAfterTimeout ==
    /\ loaded.kind = "return"
    /\ localFile.state = "absent"
    /\ remote.net = "timeout"
    /\ loaded.fetched
    /\ environ.MQTT_HOST.set /\ environ.MQTT_PORT.set /\ ~environ.MQTT_USER.set
    /\ loaded.value.v["mqtt_host"] = "10.0.0.2"
    /\ loaded.value.v["mqtt_port"] = 1884
    /\ loaded.value.v["mqtt_user"] = "drone_user"

\* C7: load_config never raises: whatever the local file, the environment
\* and the hub's answer, it returns a config.
C7_ResolveNeverRaises ==
    loaded # Pending => loaded.kind = "return"

\* C8: a directive send from command dispatch (network thread inside
\* command_long_send) and a receive of the poll loop (main thread inside
\* recv_match) are never both in progress on the link.
C8_LinkSendAndReceiveExclusive ==
    ~(pcNet = "sending" /\ pcMain = "recving")

\* C9: once main waits for the heartbeat it eventually has the link ready
\* (heartbeat seen) or has taken the exit path, also when the vehicle stays
\* silent.
C9_HandshakeWaitEnds ==
    (pcMain = "wait_heartbeat") ~> (link = "ready" \/ pcMain = "exited")

\* C10: an error caught in an iteration of the poll loop does not end the
\* loop: main leaves the loop only on an interrupt of the process, and from
\* the except clause it gets to the next receive attempt (unless that
\* interrupt comes first).
C10_PollLoopSurvivesErrors ==
    /\ [][ (pcMain \in LoopStates /\ pcMain' \notin LoopStates)
              => (stopCause = "none" /\ stopCause' = "interrupt") ]_vars
    /\ (pcMain = "except") ~> (pcMain = "recving" \/ stopCause = "interrupt")

\* C10 witness: after a caught error the loop has received a HEARTBEAT and
\* is about to publish it
C10_MessageHandledAfterError ==
    /\ erred
    /\ pcMain = "handle"
    /\ cur = "HEARTBEAT"
    /\ stopCause = "none"

\* what the command dispatch is to drop: a payload that is not a JSON object
\* (not UTF-8, not JSON, or another JSON value), or an object whose command
\* tag is missing or is none of the four commands
NotACommand(p) ==
    \/ p.t # "dict"
    \/ "command" \notin DOMAIN p.v
    \/ p.v["command"] \notin {"arm", "disarm", "takeoff", "land"}

\* C11: while on_message handles a payload that is not a command, every step
\* leaves the directives sent to the vehicle as they are, and the callback
\* ends by returning to the network loop: no exception leaves it.
C11_MalformedCommandDropped ==
    [][ (pcNet = "on_message" /\ NotACommand(payload))
            => (directives' = directives /\ pcNet' \in {"on_message", "idle"}) ]_vars

\* C11 witness: the callback has returned from a payload that decodes to a
\* number (payload.get raised AttributeError, caught), nothing was sent
C11_NumberPayloadDropped ==
    /\ delivered = 1
    /\ payload = JsonNum(5)
    /\ pcNet = "idle"
    /\ directives = <<>>

\* the takeoff directive for a payload: MAV_CMD_NAV_TAKEOFF (22) with the
\* payload's altitude as param7, 10 when the payload has none
TakeoffFor(p) ==
    [command |-> 22, param1 |-> 0,
     param7 |-> IF "altitude" \in DOMAIN p.v THEN p.v["altitude"] ELSE 10]

IsTakeoff(p) ==
    p.t = "dict" /\ "command" \in DOMAIN p.v /\ p.v["command"] = "takeoff"

\* C12: on_message handling a takeoff payload goes to exactly one call of
\* command_long_send, and what that call adds to the directives sent is the
\* one takeoff directive with the payload's altitude, or 10 without one
\* (nothing is added when the write to the link raises); no other step of
\* the callback sends anything.
C12_TakeoffIssuesOneDirective ==
    [][ /\ (pcNet = "on_message" /\ IsTakeoff(payload))
            => (directives' = directives /\ pcNet' \in {"on_message", "sending"})
        /\ (pcNet = "sending" /\ IsTakeoff(payload))
            => \/ directives' = directives
               \/ /\ directives' = Append(directives, TakeoffFor(payload))
                  /\ pcNet' = "idle" ]_vars

\* C12 witness: a takeoff payload without altitude has been handled and the
\* one directive sent carries altitude 10
C12_DefaultAltitudeSent ==
    /\ payload = Dict([command |-> "takeoff"])
    /\ pcNet = "idle"
    /\ directives = <<[command |-> 22, param1 |-> 0, param7 |-> 10]>>

\* the config a request to the hub would load now
HubConfigNow == hub_load_config(cfgFile, defaultConfig).value

\* the last request was a device-config fetch that was answered 200
DroneConfigServed == lastOp.op = "get_drone_config" /\ resp.code = 200

\* C13: the device config just assembled has as mqtt_host the hub config's
\* vpn_broker_ip when its current_mode is VPN, its lan_broker_ip when LAN.
C13_HostFollowsMode ==
    DroneConfigServed =>
        /\ ( /\ ConfigGet(HubConfigNow, "current_mode", "LAN") = "VPN"
             /\ "vpn_broker_ip" \in DOMAIN HubConfigNow.v )
               => resp.body.mqtt_host = HubConfigNow.v["vpn_broker_ip"]
        /\ ( /\ ConfigGet(HubConfigNow, "current_mode", "VPN") = "LAN"
             /\ "lan_broker_ip" \in DOMAIN HubConfigNow.v )
               => resp.body.mqtt_host = HubConfigNow.v["lan_broker_ip"]

\* C13 witness: a device config served in VPN mode with the VPN broker's host
C13_VpnHostServed ==
    /\ DroneConfigServed
    /\ HubConfigNow.v["current_mode"] = "VPN"
    /\ HubConfigNow.v["vpn_broker_ip"] = "100.64.0.1"
    /\ HubConfigNow.v["lan_broker_ip"] = "192.168.4.1"
    /\ resp.body.mqtt_host = "100.64.0.1"

\* C14: the device config just assembled has as mqtt_port the hub config's
\* vpn_broker_port when its current_mode is VPN, its lan_broker_port when LAN.
C14_PortFollowsMode ==
    DroneConfigServed =>
        /\ ( /\ ConfigGet(HubConfigNow, "current_mode", "LAN") = "VPN"
             /\ "vpn_broker_port" \in DOMAIN HubConfigNow.v )
               => resp.body.mqtt_port = HubConfigNow.v["vpn_broker_port"]
        /\ ( /\ ConfigGet(HubConfigNow, "current_mode", "VPN") = "LAN"
             /\ "lan_broker_port" \in DOMAIN HubConfigNow.v )
               => resp.body.mqtt_port = HubConfigNow.v["lan_broker_port"]

\* the request threads that are between the start of the credential upsert
\* and the end of the ACL append of their enrollment
InFileMutation ==
    { t \in Threads : handlers[t].pc \in {"create_mosquitto_user", "update_acl_file"} }

\* C15: at most one request thread at a time is inside the file mutation of
\* an enrollment (create_mosquitto_user followed by update_acl_file).
C15_EnrollmentsSerialized == Cardinality(InFileMutation) <= 1

\* C16: on the way out of the bridge the three steps come in order: once the
\* network thread has been stopped main is out of the poll loop, and once the
\* link has been closed the network thread no longer runs (and main is out
\* of the poll loop).
C16_ShutdownOrder ==
    /\ netThread = "stopped" => pcMain \notin LoopStates
    /\ link = "closed" => (netThread # "running" /\ pcMain \notin LoopStates)

\* C16 witness: an interrupt took main out of the poll loop after it had
\* published; the network thread was stopped and the link closed
C16_StoppedAfterInterrupt ==
    /\ stopCause = "interrupt"
    /\ published # {}
    /\ netThread = "stopped"
    /\ link = "closed"
    /\ pcMain = "exited"

\* the services the hub manages
ManagedServices == {"mosquitto", "headscale", "wetty"}

\* C17: every restart issued to the service manager names a managed
\* service: a request for another name leads to no restart.
C17_RestartsOnlyManagedServices ==
    \A i \in DOMAIN restartLog : restartLog[i].service \in ManagedServices

\* the usernames for which the ACL file holds the rule block of device d
EnrolledAs(d) == { u \in Usernames : HasBlock(aclFile, u, d) }

\* C18: when the rules of device d were written for username u (and for no
\* other), the device config the hub serves for d names u as mqtt_user, and
\* its mqtt_pass is the password the password file holds for u.
C18_ConfigCarriesEnrolledCredential ==
    \A d \in AssetIds, u \in Usernames :
        (DroneConfigServed /\ lastOp.drone_asset_id = d /\ EnrolledAs(d) = {u})
            => /\ resp.body.mqtt_user = u
               /\ u \in DOMAIN pwFile => resp.body.mqtt_pass = pwFile[u]

\* C19: an enrollment request with all three fields, served while the
\* mosquitto_passwd tool works, gets past the credential step:
\* create_mosquitto_user returns True and update_acl_file is called.
C19_CredentialStepSucceedsWhenToolWorks ==
    ( /\ lastOp.op = "add_asset"
      /\ lastOp.data.t = "dict"
      /\ {"asset_id", "username", "password"} \subseteq DOMAIN lastOp.data.v
      /\ lastOp.tool = "ok" )
        => (lastOp.cred = "ok" /\ lastOp.aclStep # "skipped")

\* C20: a config set request whose save_config fails (answered with an
\* error) leaves the config that later requests load as it was before the
\* request, also when there is no config file and DEFAULT_CONFIG is in use.
C20_FailedSetLeavesConfig ==
    [][ (lastOp'.op = "set_config" /\ lastOp'.saved = "failed")
            => (resp'.code = 500 /\ HubConfigNow' = HubConfigNow) ]_vars

\* this step is main's call of mqtt_client.connect, returning or raising
BusConnectAttempt ==
    pcMain = "mqtt_connect" /\ (pcMain' = "loop_start" \/ stopCause' = "connect_error")

\* C21: the bridge touches the bus and sends directives only while the link
\* is ready (heartbeat seen, handle not closed). The network thread, which
\* keeps the bus connection and runs the callbacks, runs only then, and so
\* does every callback; the connect call and every directive sent happen
\* with the link ready. The link goes none, open, ready, closed and never
\* back, and a process that ended on a link error never had it ready: it
\* made no bus connection and started no network thread.
C21_BusAndDirectivesOnlyWhileReady ==
    /\ [] /\ netThread = "running" => link = "ready"
          /\ pcNet \in {"on_message", "sending"}
                => (link = "ready" /\ netThread = "running")
          /\ stopCause = "link_error"
                => (link \in {"none", "open"} /\ netThread = "off" /\ subscribed = {})
    /\ [][ /\ BusConnectAttempt => link = "ready"
           /\ directives' # directives => (link = "ready" /\ link' = "ready")
           /\ link' # link => <<link, link'>> \in { <<"none", "open">>,
                                                     <<"open", "ready">>,
                                                     <<"ready", "closed">> } ]_vars

\* C21 witness: a directive was sent, then the bridge was shut down: the
\* network thread stopped with no callback running, and the link closed
C21_ClosedAfterDirective ==
    /\ directives # <<>>
    /\ netThread = "stopped"
    /\ pcNet = "idle"
    /\ link = "closed"

=============================================================================
